---- MODULE Spec2Model ----
(***************************************************************************)
(* Model of simple_llamacpp_client.py: the response decoding and text      *)
(* normalisation pipeline of the llama.cpp chat client node.               *)
(*                                                                         *)
(* A text is a sequence of Unicode code points (naturals).  Python values  *)
(* (JSON values, None) are records of one uniform shape, see PyVal below.  *)
(***************************************************************************)
EXTENDS Integers, Sequences, FiniteSets, TLC

VARIABLES pc, arg, ret, lines, content_parts, reasoning_parts, meta

vars == <<pc, arg, ret, lines, content_parts, reasoning_parts, meta>>

streamVars == <<lines, content_parts, reasoning_parts, meta>>

(***************************************************************************)
(* Bounds of the explored inputs.                                          *)
(***************************************************************************)
MaxJsonLen == 4

(***************************************************************************)
(* Generic sequence helpers.                                               *)
(***************************************************************************)
Min(a, b) == IF a < b THEN a ELSE b

Max(a, b) == IF a > b THEN a ELSE b

SeqsUpTo(S, n) == UNION {[1..k -> S] : k \in 0..n}

RECURSIVE ConcatAll(_)
\* "".join(parts)
ConcatAll(parts) ==
    IF parts = <<>> THEN <<>> ELSE Head(parts) \o ConcatAll(Tail(parts))

\* s[i:] with a 1-based first index
From(s, i) == SubSeq(s, i, Len(s))

\* s.startswith(p) looked up at position i (1-based)
MatchAt(s, i, p) ==
    /\ i >= 1
    /\ i + Len(p) - 1 <= Len(s)
    /\ \A k \in 1..Len(p) : s[i + k - 1] = p[k]

\* s.find(p): the least 1-based index of an occurrence, 0 when there is none
Find(s, p) ==
    LET hits == {i \in 1..Len(s) : MatchAt(s, i, p)}
    IN IF hits = {} THEN 0 ELSE CHOOSE i \in hits : \A j \in hits : i <= j

(***************************************************************************)
(* Characters.                                                             *)
(***************************************************************************)
\* str.strip() / regex \s whitespace (the part below U+0100)
IsSpace(c) == c \in {9, 10, 11, 12, 13, 28, 29, 30, 31, 32, 133, 160}

\* whitespace skipped by json.loads
IsJsonWs(c) == c \in {9, 10, 13, 32}

\* re.IGNORECASE on ASCII letters
Lower(c) == IF c >= 65 /\ c <= 90 THEN c + 32 ELSE c

LowerAll(s) == [i \in 1..Len(s) |-> Lower(s[i])]

\* number of leading / trailing characters of s[lo..hi] that satisfy the class
RECURSIVE LeadSpace(_, _, _)
LeadSpace(s, lo, hi) ==
    IF lo <= hi /\ IsSpace(s[lo]) THEN 1 + LeadSpace(s, lo + 1, hi) ELSE 0

RECURSIVE TrailSpace(_, _, _)
TrailSpace(s, lo, hi) ==
    IF lo <= hi /\ IsSpace(s[hi]) THEN 1 + TrailSpace(s, lo, hi - 1) ELSE 0

\* str.strip()
Strip(s) ==
    LET a == LeadSpace(s, 1, Len(s))
        b == TrailSpace(s, a + 1, Len(s))
    IN SubSeq(s, a + 1, Len(s) - b)

RECURSIVE LeadTick(_, _, _)
LeadTick(s, lo, hi) ==
    IF lo <= hi /\ s[lo] = 96 THEN 1 + LeadTick(s, lo + 1, hi) ELSE 0

RECURSIVE TrailTick(_, _, _)
TrailTick(s, lo, hi) ==
    IF lo <= hi /\ s[hi] = 96 THEN 1 + TrailTick(s, lo, hi - 1) ELSE 0

\* str.strip("`")
StripTicks(s) ==
    LET a == LeadTick(s, 1, Len(s))
        b == TrailTick(s, a + 1, Len(s))
    IN SubSeq(s, a + 1, Len(s) - b)

(***************************************************************************)
(* Words of the program text, as code points.                              *)
(***************************************************************************)
W_data == <<100, 97, 116, 97, 58>>                      \* data:
W_DONE == <<91, 68, 79, 78, 69, 93>>                    \* [DONE]
W_open == <<60, 116, 104, 105, 110, 107, 62>>           \* <think>
W_close == <<60, 47, 116, 104, 105, 110, 107, 62>>      \* </think>
W_final == <<102, 105, 110, 97, 108>>                   \* final
W_answer == <<97, 110, 115, 119, 101, 114>>             \* answer
W_fence == <<96, 96, 96>>                               \* ```
W_true == <<116, 114, 117, 101>>                        \* true
W_false == <<102, 97, 108, 115, 101>>                   \* false
W_null == <<110, 117, 108, 108>>                        \* null
K_choices == <<99, 104, 111, 105, 99, 101, 115>>        \* choices
K_delta == <<100, 101, 108, 116, 97>>                   \* delta
K_message == <<109, 101, 115, 115, 97, 103, 101>>       \* message
K_content == <<99, 111, 110, 116, 101, 110, 116>>       \* content
K_reasoning == <<114, 101, 97, 115, 111, 110, 105, 110, 103>>  \* reasoning
K_thoughts == <<116, 104, 111, 117, 103, 104, 116, 115>>       \* thoughts
K_text == <<116, 101, 120, 116>>                        \* text
K_stream_meta == <<115, 116, 114, 101, 97, 109, 95, 109, 101, 116, 97>>  \* stream_meta
K_done == <<100, 111, 110, 101>>                        \* done
K_chunks == <<99, 104, 117, 110, 107, 115>>             \* chunks

(***************************************************************************)
(* Python values.  One record shape for all of them, so that any two can   *)
(* be compared: t is the type tag, the other fields hold the payload of    *)
(* that type and a default otherwise.                                      *)
(***************************************************************************)
PyVal(t, b, n, s, items, keys) ==
    [t |-> t, b |-> b, n |-> n, s |-> s, items |-> items, keys |-> keys]

None == PyVal("none", FALSE, 0, <<>>, <<>>, <<>>)

PyBool(b) == PyVal("bool", b, 0, <<>>, <<>>, <<>>)

PyNum(n) == PyVal("num", FALSE, n, <<>>, <<>>, <<>>)

PyStr(s) == PyVal("str", FALSE, 0, s, <<>>, <<>>)

PyList(items) == PyVal("list", FALSE, 0, <<>>, items, <<>>)

\* a dict: keys[i] maps to items[i], in insertion order, keys distinct
PyDict(keys, items) == PyVal("dict", FALSE, 0, <<>>, items, keys)

IsDict(v) == v.t = "dict"

IsList(v) == v.t = "list"

IsStr(v) == v.t = "str"

\* Python truthiness: bool(v)
Truthy(v) ==
    CASE v.t = "none" -> FALSE
      [] v.t = "bool" -> v.b
      [] v.t = "num" -> v.n # 0
      [] v.t = "str" -> v.s # <<>>
      [] OTHER -> v.items # <<>>

\* a or b
Or(a, b) == IF Truthy(a) THEN a ELSE b

\* d.get(k, default)
GetOr(d, k, default) ==
    LET hits == {i \in 1..Len(d.keys) : d.keys[i] = k}
    IN IF hits = {} THEN default ELSE d.items[CHOOSE i \in hits : TRUE]

\* d.get(k)
Get(d, k) == GetOr(d, k, None)

\* d[k] = v while a dict literal is read: a repeated key keeps its place and
\* takes the later value
DictPut(d, k, v) ==
    LET hits == {i \in 1..Len(d.keys) : d.keys[i] = k}
    IN IF hits = {}
       THEN PyDict(Append(d.keys, k), Append(d.items, v))
       ELSE PyDict(d.keys, [d.items EXCEPT ![CHOOSE i \in hits : TRUE] = v])

(***************************************************************************)
(* json.loads.  Parsers work on s[i..hi] and return [ok, next, v].         *)
(* Numbers are integers (no fraction or exponent); NaN and Infinity, which *)
(* Python also accepts, are left out.                                      *)
(***************************************************************************)
Fail == [ok |-> FALSE, next |-> 0, v |-> None]

Ok(next, v) == [ok |-> TRUE, next |-> next, v |-> v]

RECURSIVE SkipWs(_, _, _)
SkipWs(s, i, hi) ==
    IF i <= hi /\ IsJsonWs(s[i]) THEN SkipWs(s, i + 1, hi) ELSE i

IsDigit(c) == c >= 48 /\ c <= 57

IsHex(c) == IsDigit(c) \/ (c >= 97 /\ c <= 102) \/ (c >= 65 /\ c <= 70)

HexVal(c) == IF IsDigit(c) THEN c - 48 ELSE IF c >= 97 THEN c - 87 ELSE c - 55

\* the character a one-letter escape stands for, 0 when the letter is none
Unescape(c) ==
    CASE c = 34 -> 34
      [] c = 92 -> 92
      [] c = 47 -> 47
      [] c = 98 -> 8
      [] c = 102 -> 12
      [] c = 110 -> 10
      [] c = 114 -> 13
      [] c = 116 -> 9
      [] OTHER -> 0

RECURSIVE ScanString(_, _, _, _)
\* the body of a string literal from position i (after the opening quote)
ScanString(s, i, hi, acc) ==
    IF i > hi THEN Fail
    ELSE IF s[i] = 34 THEN Ok(i + 1, PyStr(acc))
    ELSE IF s[i] = 92 THEN
        IF i + 1 > hi THEN Fail
        ELSE IF s[i + 1] = 117 THEN
            IF i + 5 <= hi /\ \A k \in 2..5 : IsHex(s[i + k])
            THEN ScanString(s, i + 6, hi,
                     Append(acc, HexVal(s[i + 2]) * 4096 + HexVal(s[i + 3]) * 256
                                 + HexVal(s[i + 4]) * 16 + HexVal(s[i + 5])))
            ELSE Fail
        ELSE IF Unescape(s[i + 1]) # 0
            THEN ScanString(s, i + 2, hi, Append(acc, Unescape(s[i + 1])))
            ELSE Fail
    ELSE IF s[i] < 32 THEN Fail
    ELSE ScanString(s, i + 1, hi, Append(acc, s[i]))

RECURSIVE ScanDigits(_, _, _, _)
ScanDigits(s, i, hi, acc) ==
    IF i <= hi /\ IsDigit(s[i])
    THEN ScanDigits(s, i + 1, hi, acc * 10 + (s[i] - 48))
    ELSE Ok(i, PyNum(acc))

\* an integer literal: -? (0 | [1-9][0-9]*)
ScanNumber(s, i, hi) ==
    LET neg == s[i] = 45
        j == IF neg THEN i + 1 ELSE i
    IN IF j > hi \/ ~IsDigit(s[j]) THEN Fail
       ELSE LET r == IF s[j] = 48 THEN Ok(j + 1, PyNum(0)) ELSE ScanDigits(s, j, hi, 0)
            IN IF neg THEN Ok(r.next, PyNum(0 - r.v.n)) ELSE r

RECURSIVE ParseValue(_, _, _)
RECURSIVE ParseElements(_, _, _, _)
RECURSIVE ParseMembers(_, _, _, _)

\* array elements from position i (after "[" or ","), acc the ones read so far
ParseElements(s, i, hi, acc) ==
    LET e == ParseValue(s, SkipWs(s, i, hi), hi)
    IN IF ~e.ok THEN Fail
       ELSE LET j == SkipWs(s, e.next, hi)
            IN IF j > hi THEN Fail
               ELSE IF s[j] = 93 THEN Ok(j + 1, PyList(Append(acc, e.v)))
               ELSE IF s[j] = 44 THEN ParseElements(s, j + 1, hi, Append(acc, e.v))
               ELSE Fail

\* object members from position i (after "{" or ","), acc the dict so far
ParseMembers(s, i, hi, acc) ==
    LET j == SkipWs(s, i, hi)
    IN IF j > hi \/ s[j] # 34 THEN Fail
       ELSE LET k == ScanString(s, j + 1, hi, <<>>)
            IN IF ~k.ok THEN Fail
               ELSE LET c == SkipWs(s, k.next, hi)
                    IN IF c > hi \/ s[c] # 58 THEN Fail
                       ELSE LET e == ParseValue(s, SkipWs(s, c + 1, hi), hi)
                            IN IF ~e.ok THEN Fail
                               ELSE LET d == DictPut(acc, k.v.s, e.v)
                                        n == SkipWs(s, e.next, hi)
                                    IN IF n > hi THEN Fail
                                       ELSE IF s[n] = 125 THEN Ok(n + 1, d)
                                       ELSE IF s[n] = 44 THEN ParseMembers(s, n + 1, hi, d)
                                       ELSE Fail

ParseValue(s, i, hi) ==
    IF i > hi THEN Fail
    ELSE IF s[i] = 34 THEN ScanString(s, i + 1, hi, <<>>)
    ELSE IF s[i] = 91 THEN
        LET j == SkipWs(s, i + 1, hi)
        IN IF j <= hi /\ s[j] = 93 THEN Ok(j + 1, PyList(<<>>))
           ELSE ParseElements(s, i + 1, hi, <<>>)
    ELSE IF s[i] = 123 THEN
        LET j == SkipWs(s, i + 1, hi)
        IN IF j <= hi /\ s[j] = 125 THEN Ok(j + 1, PyDict(<<>>, <<>>))
           ELSE ParseMembers(s, i + 1, hi, PyDict(<<>>, <<>>))
    ELSE IF s[i] = 45 \/ IsDigit(s[i]) THEN ScanNumber(s, i, hi)
    ELSE IF MatchAt(s, i, W_true) /\ i + 3 <= hi THEN Ok(i + 4, PyBool(TRUE))
    ELSE IF MatchAt(s, i, W_false) /\ i + 4 <= hi THEN Ok(i + 5, PyBool(FALSE))
    ELSE IF MatchAt(s, i, W_null) /\ i + 3 <= hi THEN Ok(i + 4, None)
    ELSE Fail

\* json.loads(s[lo..hi]): one value between optional whitespace, nothing else
Loads(s, lo, hi) ==
    LET r == ParseValue(s, SkipWs(s, lo, hi), hi)
    IN IF r.ok /\ SkipWs(s, r.next, hi) > hi THEN r ELSE Fail

\* the text is valid JSON
IsJson(s) == Loads(s, 1, Len(s)).ok

\* _safe_json_loads: None on any parse error (and for the JSON value null)
_safe_json_loads(s) ==
    LET r == Loads(s, 1, Len(s)) IN IF r.ok THEN r.v ELSE None

(***************************************************************************)
(* _extract_json_from_text                                                 *)
(***************************************************************************)
MaxAttempts == 4000

\* [a-zA-Z0-9_-], the characters of a fence's language tag
IsTagChar(c) ==
    \/ IsDigit(c)
    \/ (c >= 97 /\ c <= 122)
    \/ (c >= 65 /\ c <= 90)
    \/ c = 95
    \/ c = 45

RECURSIVE LeadTag(_, _, _)
LeadTag(s, lo, hi) ==
    IF lo <= hi /\ IsTagChar(s[lo]) THEN 1 + LeadTag(s, lo + 1, hi) ELSE 0

\* re.sub(r"^```[a-zA-Z0-9_-]*\s*", "", t) for a t that starts with ```
DropOpeningFence(t) ==
    LET a == 3 + LeadTag(t, 4, Len(t))
        b == a + LeadSpace(t, a + 1, Len(t))
    IN From(t, b + 1)

\* re.sub(r"\s*```$", "", t): "$" also matches before one final newline
DropClosingFence(t) ==
    LET n == IF Len(t) >= 4 /\ t[Len(t)] = 10 /\ MatchAt(t, Len(t) - 3, W_fence)
             THEN Len(t) - 1
             ELSE IF MatchAt(t, Len(t) - 2, W_fence) THEN Len(t) ELSE 0
    IN IF n = 0 THEN t
       ELSE LET body == n - 3
                cut == body - TrailSpace(t, 1, body)
            IN SubSeq(t, 1, cut) \o SubSeq(t, n + 1, Len(t))

\* lines 174-178: trim, then strip an enclosing code fence
FenceStripped(text) ==
    LET t == Strip(text)
    IN IF MatchAt(t, 1, W_fence) THEN Strip(DropClosingFence(DropOpeningFence(t))) ELSE t

\* mutant: "{" is preferred whenever the text has one, wherever "[" is
Candidate_PrefersBrace(t) ==
    LET obj_start == Find(t, <<123>>)
        arr_start == Find(t, <<91>>)
        start == IF obj_start # 0 THEN obj_start ELSE arr_start
    IN IF obj_start = 0 /\ arr_start = 0 THEN <<>> ELSE Strip(From(t, start))

\* lines 184-190: the text from the earliest "{" or "[" on, trimmed; <<>> when
\* the text has neither
Candidate(t) ==
    LET obj_start == Find(t, <<123>>)
        arr_start == Find(t, <<91>>)
        start == IF obj_start # 0 /\ (arr_start = 0 \/ obj_start < arr_start)
                 THEN obj_start ELSE arr_start
    IN IF obj_start = 0 /\ arr_start = 0 THEN <<>> ELSE Strip(From(t, start))

\* candidate[: len(candidate) - i].strip() is valid JSON
ChunkParses(candidate, i) ==
    LET hi == Len(candidate) - i
    IN Loads(candidate, 1, hi - TrailSpace(candidate, 1, hi)).ok

\* lines 192-198: the attempts i = 0, 1, ... in order, the first that parses
ScanCandidate(candidate) ==
    LET tries == 0..(Min(MaxAttempts, Len(candidate)) - 1)
        good == {i \in tries : ChunkParses(candidate, i)}
    IN IF good = {} THEN None
       ELSE LET i == CHOOSE g \in good : \A h \in good : g <= h
                hi == Len(candidate) - i
            IN Loads(candidate, 1, hi - TrailSpace(candidate, 1, hi)).v

_extract_json_from_text(text) ==
    IF text = <<>> THEN None
    ELSE LET t == FenceStripped(text)
             direct == _safe_json_loads(t)
         IN IF direct # None THEN direct
            ELSE IF Candidate(t) = <<>> THEN None
            ELSE ScanCandidate(Candidate(t))

(***************************************************************************)
(* Specification of the JSON extractor: the text is the input, one call.   *)
(***************************************************************************)
\* { } [ ] 1 space x ` newline " : ,
JsonAlphabet == {123, 125, 91, 93, 49, 32, 120, 96}

\* {"a":1} stop here
TrailingNoiseText == <<123, 34, 97, 34, 58, 49, 125>> \o <<32, 115, 116, 111, 112>>

\* [] followed by n characters of noise
NoisyList(n) == <<91, 93>> \o [i \in 1..n |-> 120]

JsonTexts ==
    SeqsUpTo(JsonAlphabet, MaxJsonLen)
        \cup {TrailingNoiseText, NoisyList(MaxAttempts - 1), NoisyList(MaxAttempts),
              W_fence \o <<120, 10, 91, 49, 44, 49, 93, 10>> \o W_fence}

NoStream ==
    /\ lines = <<>>
    /\ content_parts = <<>>
    /\ reasoning_parts = <<>>
    /\ meta = [done |-> FALSE, chunks |-> 0]

InitJson ==
    /\ pc = "call"
    /\ arg \in {[text |-> t] : t \in JsonTexts}
    /\ ret = None
    /\ NoStream

ExtractJson ==
    /\ pc = "call"
    /\ ret' = _extract_json_from_text(arg.text)
    /\ pc' = "done"
    /\ UNCHANGED <<arg, streamVars>>

NextJson == ExtractJson

SpecJson == InitJson /\ [][NextJson]_vars

(***************************************************************************)
(* C6.  When the trimmed, fence-stripped text is not JSON as a whole, the  *)
(* extractor returns absence if the text has no "{" or "[", and otherwise  *)
(* the parse of the longest valid-JSON prefix of the suffix that starts at *)
(* the earliest bracket, among the prefixes reached by dropping fewer than *)
(* 4000 trailing characters; absence if none of these parses.  A value it  *)
(* returns is always the parse of a contiguous piece of the input.         *)
(***************************************************************************)
\* the positions of "{" and "[" in t
Brackets(t) == {i \in 1..Len(t) : t[i] = 123 \/ t[i] = 91}

\* the lengths k of the prefixes of suffix that are valid JSON and that the
\* bounded search reaches
ReachedPrefixes(suffix) ==
    {k \in Max(1, Len(suffix) - MaxAttempts + 1)..Len(suffix) : Loads(suffix, 1, k).ok}

\* what C6 says the extractor returns for a text that is not JSON as a whole
ExpectedExtract(t) ==
    IF Brackets(t) = {} THEN None
    ELSE LET first == CHOOSE i \in Brackets(t) : \A j \in Brackets(t) : i <= j
             suffix == From(t, first)
             good == ReachedPrefixes(suffix)
         IN IF good = {} THEN None
            ELSE Loads(suffix, 1, CHOOSE k \in good : \A h \in good : h <= k).v

IsParseOfPiece(v, text) ==
    \E i \in 1..Len(text) : \E j \in i..Len(text) :
        Loads(text, i, j).ok /\ Loads(text, i, j).v = v

C6_ExtractLongestPrefix ==
    (pc = "done" /\ ~IsJson(FenceStripped(arg.text)))
        => /\ ret = ExpectedExtract(FenceStripped(arg.text))
           /\ ret # None => IsParseOfPiece(ret, arg.text)

\* the spec's trailing-noise example: {"a":1} stop  ->  {"a": 1}
C6_Witness ==
    /\ pc = "done"
    /\ arg.text = TrailingNoiseText
    /\ ~IsJson(FenceStripped(arg.text))
    /\ ret = PyDict(<<(<<97>>)>>, <<PyNum(1)>>)

(***************************************************************************)
(* Text repair: _fix_mojibake, _replace_smart_quotes, _postprocess_text    *)
(***************************************************************************)
\* a UTF-8 continuation byte between lo and hi
IsCont(b, lo, hi) == b >= lo /\ b <= hi

RECURSIVE DecodeRun(_, _, _, _)
\* the strict UTF-8 decoding of the bytes b[i..n], one character after the
\* other: [ok, s]
DecodeRun(b, i, n, acc) ==
    LET bad == [ok |-> FALSE, s |-> <<>>]
    IN IF i > n THEN [ok |-> TRUE, s |-> acc]
       ELSE IF b[i] < 128 THEN DecodeRun(b, i + 1, n, Append(acc, b[i]))
       ELSE IF b[i] >= 194 /\ b[i] <= 223 THEN
           IF i + 1 <= n /\ IsCont(b[i + 1], 128, 191)
           THEN DecodeRun(b, i + 2, n, Append(acc, (b[i] - 192) * 64 + (b[i + 1] - 128)))
           ELSE bad
       ELSE IF b[i] >= 224 /\ b[i] <= 239 THEN
           IF /\ i + 2 <= n
              /\ IsCont(b[i + 1], IF b[i] = 224 THEN 160 ELSE 128, IF b[i] = 237 THEN 159 ELSE 191)
              /\ IsCont(b[i + 2], 128, 191)
           THEN DecodeRun(b, i + 3, n,
                    Append(acc, (b[i] - 224) * 4096 + (b[i + 1] - 128) * 64 + (b[i + 2] - 128)))
           ELSE bad
       ELSE IF b[i] >= 240 /\ b[i] <= 244 THEN
           IF /\ i + 3 <= n
              /\ IsCont(b[i + 1], IF b[i] = 240 THEN 144 ELSE 128, IF b[i] = 244 THEN 143 ELSE 191)
              /\ IsCont(b[i + 2], 128, 191)
              /\ IsCont(b[i + 3], 128, 191)
           THEN DecodeRun(b, i + 4, n,
                    Append(acc, (b[i] - 240) * 262144 + (b[i + 1] - 128) * 4096
                                + (b[i + 2] - 128) * 64 + (b[i + 3] - 128)))
           ELSE bad
       ELSE bad

\* the last position in mid-3..mid where a character can start (the byte is
\* no continuation byte), 0 when there is none: four continuation bytes in a
\* row are never valid
Boundary(b, mid) ==
    LET starts == {j \in (mid - 3)..mid : ~IsCont(b[j], 128, 191)}
    IN IF starts = {} THEN 0 ELSE CHOOSE j \in starts : \A k \in starts : k <= j

RECURSIVE DecodeRange(_, _, _)
\* the decoding of b[lo..hi]; a long range is decoded in two halves that meet
\* at a character boundary, which gives the same result as one run
DecodeRange(b, lo, hi) ==
    IF hi - lo < 8 THEN DecodeRun(b, lo, hi, <<>>)
    ELSE LET m == Boundary(b, (lo + hi + 1) \div 2)
         IN IF m = 0 THEN [ok |-> FALSE, s |-> <<>>]
            ELSE LET l == DecodeRange(b, lo, m - 1)
                     r == DecodeRange(b, m, hi)
                 IN IF l.ok /\ r.ok THEN [ok |-> TRUE, s |-> l.s \o r.s]
                    ELSE [ok |-> FALSE, s |-> <<>>]

\* bytes.decode("utf-8"), strict
DecodeUtf8(b) == DecodeRange(b, 1, Len(b))

\* text.encode("latin1") succeeds: every character is below U+0100, and the
\* bytes are then the code points themselves
IsLatin1(text) == \A i \in 1..Len(text) : text[i] <= 255

_fix_mojibake(text) ==
    IF text = <<>> THEN <<>>
    ELSE IF IsLatin1(text) /\ DecodeUtf8(text).ok
         THEN DecodeUtf8(text).s
         ELSE text

\* U+2019, U+2018 -> ' and U+201C, U+201D -> "
StraightQuote(c) ==
    CASE c = 8217 \/ c = 8216 -> 39
      [] c = 8220 \/ c = 8221 -> 34
      [] OTHER -> c

_replace_smart_quotes(text) == [i \in 1..Len(text) |-> StraightQuote(text[i])]

\* mutant: the combined mode straightens the quotes before it repairs
_postprocess_text_StraightenFirst(text, mode) ==
    CASE mode = "none" -> text
      [] mode = "fix_mojibake" -> _fix_mojibake(text)
      [] mode = "ascii_quotes" -> _replace_smart_quotes(text)
      [] mode = "fix_mojibake+ascii_quotes" -> _fix_mojibake(_replace_smart_quotes(text))
      [] OTHER -> _fix_mojibake(text)

\* mode is the dropdown value; the modes have no surrounding whitespace, the
\* empty mode stands for the default
_postprocess_text(text, mode) ==
    CASE mode = "none" -> text
      [] mode = "fix_mojibake" -> _fix_mojibake(text)
      [] mode = "ascii_quotes" -> _replace_smart_quotes(text)
      [] mode = "fix_mojibake+ascii_quotes" -> _replace_smart_quotes(_fix_mojibake(text))
      [] OTHER -> _fix_mojibake(text)

Modes == {"none", "fix_mojibake", "ascii_quotes", "fix_mojibake+ascii_quotes"}

(***************************************************************************)
(* Specification of normalize applied twice with the same mode.            *)
(***************************************************************************)
MaxNormLen == 4

\* A, the Latin-1 characters U+00C3 U+0082 U+00C2 U+0080 U+00E2 U+0099, and
\* the right single quote U+2019
NormAlphabet == {65, 195, 130, 194, 128, 226, 153, 8217}

InitNorm ==
    /\ pc = "call"
    /\ arg \in {[text |-> t, mode |-> m] :
                   t \in SeqsUpTo(NormAlphabet, MaxNormLen), m \in Modes \cup {""}}
    /\ ret = <<>>
    /\ NoStream

\* the first application
Normalize ==
    /\ pc = "call"
    /\ ret' = <<_postprocess_text(arg.text, arg.mode)>>
    /\ pc' = "once"
    /\ UNCHANGED <<arg, streamVars>>

\* the second application, to the result of the first
NormalizeAgain ==
    /\ pc = "once"
    /\ ret' = Append(ret, _postprocess_text(ret[1], arg.mode))
    /\ pc' = "twice"
    /\ UNCHANGED <<arg, streamVars>>

NextNorm == Normalize \/ NormalizeAgain

SpecNorm == InitNorm /\ [][NextNorm]_vars

HasHighLatin1(text) == \E i \in 1..Len(text) : text[i] >= 128 /\ text[i] <= 255

RECURSIVE Digits(_)
Digits(n) == IF n < 10 THEN <<48 + n>> ELSE Append(Digits(n \div 10), 48 + (n % 10))

RECURSIVE PyStrOf(_)
RECURSIVE JoinRepr(_, _)
\* the elements' representations separated by ", "; nested strings are
\* written between single quotes (no quote or backslash inside them)
JoinRepr(items, i) ==
    IF i > Len(items) THEN <<>>
    ELSE (IF i > 1 THEN <<44, 32>> ELSE <<>>)
         \o (IF IsStr(items[i]) THEN <<39>> \o items[i].s \o <<39>> ELSE PyStrOf(items[i]))
         \o JoinRepr(items, i + 1)

PyStrOf(v) ==
    CASE v.t = "str" -> v.s
      [] v.t = "none" -> <<78, 111, 110, 101>>
      [] v.t = "bool" -> IF v.b THEN <<84, 114, 117, 101>> ELSE <<70, 97, 108, 115, 101>>
      [] v.t = "num" -> IF v.n < 0 THEN <<45>> \o Digits(0 - v.n) ELSE Digits(v.n)
      [] v.t = "list" -> <<91>> \o JoinRepr(v.items, 1) \o <<93>>
      [] OTHER ->
           <<123>>
           \o JoinRepr([i \in 1..(2 * Len(v.keys)) |->
                           IF i % 2 = 1 THEN PyStr(v.keys[(i + 1) \div 2])
                           ELSE v.items[i \div 2]], 1)
           \o <<125>>

(***************************************************************************)
(* _clean_answer                                                           *)
(***************************************************************************)
\* the length of the match of ^\s*(final|answer)\s*:\s* at the start of t,
\* ignoring case; 0 when it does not match
LabelLen(t) ==
    LET low == LowerAll(t)
        a == LeadSpace(t, 1, Len(t))
        w == IF MatchAt(low, a + 1, W_final) THEN Len(W_final)
             ELSE IF MatchAt(low, a + 1, W_answer) THEN Len(W_answer) ELSE 0
        b == a + w + LeadSpace(t, a + w + 1, Len(t))
    IN IF w = 0 THEN 0
       ELSE IF b + 1 <= Len(t) /\ t[b + 1] = 58
            THEN b + 1 + LeadSpace(t, b + 2, Len(t))
            ELSE 0

\* re.sub(r"^\s*(final|answer)\s*:\s*", "", t, flags=re.IGNORECASE)
StripLabel(t) == From(t, LabelLen(t) + 1)

\* text is any Python value: falsy gives "", anything else goes through str()
_clean_answer(text) ==
    IF ~Truthy(text) THEN <<>>
    ELSE LET t == StripLabel(Strip(PyStrOf(text)))
             u == IF MatchAt(t, 1, W_fence) /\ MatchAt(t, Len(t) - 2, W_fence)
                  THEN Strip(StripTicks(t))
                  ELSE t
         IN Strip(u)

(***************************************************************************)
(* _THINK_TAG_RE and _split_thinking_and_answer_from_content               *)
(***************************************************************************)
\* the least index >= from where the word w occurs in s, ignoring case; 0 if
\* there is none
FindFrom(s, w, from) ==
    LET low == LowerAll(s)
        hits == {i \in from..Len(s) : MatchAt(low, i, w)}
    IN IF hits = {} THEN 0 ELSE CHOOSE i \in hits : \A j \in hits : i <= j

\* _THINK_TAG_RE.search from position from: the leftmost <think>, paired with
\* the nearest </think> after it.  [found, open, close] with the positions of
\* the two markers
FindBlock(s, from) ==
    LET open == FindFrom(s, W_open, from)
        close == IF open = 0 THEN 0 ELSE FindFrom(s, W_close, open + Len(W_open))
    IN [found |-> open # 0 /\ close # 0, open |-> open, close |-> close]

\* m.group(1) of the block b
Enclosed(s, b) == SubSeq(s, b.open + Len(W_open), b.close - 1)

\* s with the block b cut out
WithoutBlock(s, b) == SubSeq(s, 1, b.open - 1) \o From(s, b.close + Len(W_close))

RECURSIVE RemoveBlocks(_, _)
\* _THINK_TAG_RE.sub("", s): every match, left to right, without overlap
RemoveBlocks(s, from) ==
    LET b == FindBlock(s, from)
    IN IF ~b.found THEN From(s, from)
       ELSE SubSeq(s, from, b.open - 1) \o RemoveBlocks(s, b.close + Len(W_close))

Pair(thinking, answer) == [thinking |-> thinking, answer |-> answer]

_split_thinking_and_answer_from_content(content) ==
    IF content = <<>> THEN Pair(<<>>, <<>>)
    ELSE LET m == FindBlock(content, 1)
         IN IF m.found
            THEN Pair(Strip(Enclosed(content, m)),
                      _clean_answer(PyStr(Strip(RemoveBlocks(content, 1)))))
            ELSE Pair(<<>>, _clean_answer(PyStr(content)))

(***************************************************************************)
(* _split_thinking_and_answer                                              *)
(***************************************************************************)
_split_thinking_and_answer(message_obj) ==
    LET reasoning == IF IsDict(message_obj)
                     THEN Or(Or(Get(message_obj, K_reasoning), Get(message_obj, K_thoughts)),
                             PyStr(<<>>))
                     ELSE PyStr(<<>>)
        content == IF IsDict(message_obj)
                   THEN Or(Get(message_obj, K_content), PyStr(<<>>))
                   ELSE PyStr(<<>>)
    IN IF IsStr(reasoning) /\ Strip(reasoning.s) # <<>>
       THEN Pair(Strip(reasoning.s), _clean_answer(content))
       ELSE IF IsStr(content)
            THEN _split_thinking_and_answer_from_content(content.s)
            ELSE Pair(<<>>, _clean_answer(PyStr(PyStrOf(content))))

(***************************************************************************)
(* Specification of the splitter: the message is the input, one call.      *)
(***************************************************************************)
MaxSplitWords == 4

\* <think>  </think>  <THINK>  x  space  answer:  ```
SplitWords ==
    {W_open, W_close, <<60, 84, 72, 73, 78, 75, 62>>, <<120>>, <<32>>,
     W_answer \o <<58>>, W_fence}

\* the texts made of up to n of the words
WordTexts(words, n) == {ConcatAll(ws) : ws \in SeqsUpTo(words, n)}

\* a dict of the fields whose value is not "absent" (a None value here)
DictOf(keys, items) ==
    LET RECURSIVE Build(_)
        Build(i) == IF i = 0 THEN PyDict(<<>>, <<>>)
                    ELSE IF items[i] = None THEN Build(i - 1)
                    ELSE DictPut(Build(i - 1), keys[i], items[i])
    IN Build(Len(keys))

\* absent, blank, text with a trailing space, not a string
ReasoningValues == {None, PyStr(<<32>>), PyStr(<<114, 32>>), PyNum(5)}

ThoughtsValues == {None, PyStr(<<112>>)}

Messages ==
    {DictOf(<<K_reasoning, K_thoughts, K_content>>, <<r, t, c>>) :
        r \in ReasoningValues, t \in ThoughtsValues,
        c \in {None, PyNum(7)} \cup {PyStr(x) : x \in WordTexts(SplitWords, MaxSplitWords)}}
      \cup {PyStr(<<120>>), None}

InitSplit ==
    /\ pc = "call"
    /\ arg \in {[message_obj |-> msg] : msg \in Messages}
    /\ ret = None
    /\ NoStream

SplitMessage ==
    /\ pc = "call"
    /\ ret' = _split_thinking_and_answer(arg.message_obj)
    /\ pc' = "done"
    /\ UNCHANGED <<arg, streamVars>>

NextSplit == SplitMessage

SpecSplit == InitSplit /\ [][NextSplit]_vars

(***************************************************************************)
(* C3.  A message with a non-blank dedicated reasoning field ("reasoning"  *)
(* looked at first, then "thoughts") gets that field, trimmed, as thinking *)
(* and the de-scaffolded content, inline markers and all, as answer.       *)
(***************************************************************************)
IsReasoningText(v) == IsStr(v) /\ Strip(v.s) # <<>>

\* the dedicated reasoning field of the message, None when it has none
DedicatedField(message_obj) ==
    IF IsReasoningText(Get(message_obj, K_reasoning)) THEN Get(message_obj, K_reasoning)
    ELSE IF IsReasoningText(Get(message_obj, K_thoughts)) THEN Get(message_obj, K_thoughts)
    ELSE None

C3_DedicatedFieldWins ==
    (/\ pc = "done"
     /\ IsDict(arg.message_obj)
     /\ DedicatedField(arg.message_obj) # None)
        => ret = Pair(Strip(DedicatedField(arg.message_obj).s),
                      _clean_answer(Get(arg.message_obj, K_content)))

(***************************************************************************)
(* C4.  For a content text with no dedicated reasoning field and an inline *)
(* block, thinking is the trimmed text of the first block and answer is    *)
(* the de-scaffolded content with that one block removed.                  *)
(***************************************************************************)
C4_FirstBlockOnly ==
    (/\ pc = "done"
     /\ IsDict(arg.message_obj)
     /\ Get(arg.message_obj, K_reasoning) = None
     /\ Get(arg.message_obj, K_thoughts) = None
     /\ IsStr(Get(arg.message_obj, K_content))
     /\ FindBlock(Get(arg.message_obj, K_content).s, 1).found)
        => LET content == Get(arg.message_obj, K_content).s
               b == FindBlock(content, 1)
           IN ret = Pair(Strip(Enclosed(content, b)),
                         _clean_answer(PyStr(WithoutBlock(content, b))))

(***************************************************************************)
(* json.dumps(value, ensure_ascii=False, indent=...)                       *)
(***************************************************************************)
HexDigit(n) == IF n < 10 THEN 48 + n ELSE 87 + n

\* one character of a string, as json.dumps writes it
EscapeChar(c) ==
    CASE c = 34 -> <<92, 34>>
      [] c = 92 -> <<92, 92>>
      [] c = 10 -> <<92, 110>>
      [] c = 13 -> <<92, 114>>
      [] c = 9 -> <<92, 116>>
      [] c = 8 -> <<92, 98>>
      [] c = 12 -> <<92, 102>>
      [] c < 32 -> <<92, 117, 48, 48, HexDigit(c \div 16), HexDigit(c % 16)>>
      [] OTHER -> <<c>>

DumpString(s) ==
    <<34>> \o ConcatAll([i \in 1..Len(s) |-> EscapeChar(s[i])]) \o <<34>>

Spaces(n) == [i \in 1..n |-> 32]

RECURSIVE Dumps(_, _, _)
RECURSIVE DumpItems(_, _, _, _)
\* the members of a list or dict from the i-th on, at nesting level
DumpItems(v, i, indent, level) ==
    IF i > Len(v.items) THEN <<>>
    ELSE (IF indent > 0 THEN <<10>> \o Spaces(indent * level) ELSE <<>>)
         \o (IF IsDict(v) THEN DumpString(v.keys[i]) \o <<58, 32>> ELSE <<>>)
         \o Dumps(v.items[i], indent, level)
         \o (IF i < Len(v.items)
             THEN (IF indent > 0 THEN <<44>> ELSE <<44, 32>>)
             ELSE IF indent > 0 THEN <<10>> \o Spaces(indent * (level - 1)) ELSE <<>>)
         \o DumpItems(v, i + 1, indent, level)

\* indent = 0 stands for indent=None
Dumps(v, indent, level) ==
    CASE v.t = "none" -> W_null
      [] v.t = "bool" -> IF v.b THEN W_true ELSE W_false
      [] v.t = "num" -> PyStrOf(v)
      [] v.t = "str" -> DumpString(v.s)
      [] v.t = "list" ->
           IF v.items = <<>> THEN <<91, 93>>
           ELSE <<91>> \o DumpItems(v, 1, indent, level + 1) \o <<93>>
      [] OTHER ->
           IF v.items = <<>> THEN <<123, 125>>
           ELSE <<123>> \o DumpItems(v, 1, indent, level + 1) \o <<125>>

(***************************************************************************)
(* _iter_sse_lines and _parse_stream_and_accumulate                        *)
(***************************************************************************)
\* line 275: the payload of a stripped line
DataStr(line) ==
    IF MatchAt(line, 1, W_data) THEN Strip(From(line, Len(W_data) + 1)) ELSE Strip(line)

\* the text fragment a delta or message field contributes, <<>> for none
Fragment(v) == IF IsStr(v) THEN v.s ELSE <<>>

\* lines 293-300 and 303-309: [content, reasoning] fragments of a delta or
\* message object, <<>> where it adds nothing
PartsOf(obj) ==
    IF ~IsDict(obj) THEN [content |-> <<>>, reasoning |-> <<>>]
    ELSE [content |-> Fragment(Get(obj, K_content)),
          reasoning |-> Fragment(Or(Get(obj, K_reasoning), Get(obj, K_thoughts)))]

\* lines 287-309: the fragments one decoded event appends, in order
EventParts(chunk) ==
    LET choices == Get(chunk, K_choices)
    IN IF ~IsList(choices) \/ choices.items = <<>>
       THEN [content |-> <<>>, reasoning |-> <<>>]
       ELSE LET c0 == IF IsDict(choices.items[1]) THEN choices.items[1] ELSE PyDict(<<>>, <<>>)
                d == PartsOf(Get(c0, K_delta))
                m == PartsOf(Get(c0, K_message))
                NonEmpty(x) == IF x = <<>> THEN <<>> ELSE <<x>>
            IN [content |-> NonEmpty(d.content) \o NonEmpty(m.content),
                reasoning |-> NonEmpty(d.reasoning) \o NonEmpty(m.reasoning)]

\* mutant: the event is counted before it is known to be a mapping
CountsAsChunk_Always(chunk) == TRUE

\* line 282: only a mapping is an event
CountsAsChunk(chunk) == IsDict(chunk)

\* _iter_sse_lines: the next line the iterator yields is the first one that is
\* not blank; the number of blank lines before it
RECURSIVE BlankPrefix(_)
BlankPrefix(ls) ==
    IF ls # <<>> /\ Strip(Head(ls)) = <<>> THEN 1 + BlankPrefix(Tail(ls)) ELSE 0

\* the lines still to be yielded, blank lines in front dropped
Pending(ls) == SubSeq(ls, BlankPrefix(ls) + 1, Len(ls))

\* mutant: the sentinel is noted but the loop goes on
ReadSentinel_KeepsReading ==
    /\ pc = "read"
    /\ Pending(lines) # <<>>
    /\ DataStr(Strip(Head(Pending(lines)))) = W_DONE
    /\ meta' = [meta EXCEPT !.done = TRUE]
    /\ lines' = Tail(Pending(lines))
    /\ UNCHANGED <<pc, arg, ret, content_parts, reasoning_parts>>

\* lines 277-279: the sentinel ends the loop
ReadSentinel ==
    /\ pc = "read"
    /\ Pending(lines) # <<>>
    /\ DataStr(Strip(Head(Pending(lines)))) = W_DONE
    /\ meta' = [meta EXCEPT !.done = TRUE]
    /\ lines' = Tail(Pending(lines))
    /\ pc' = "finish"
    /\ UNCHANGED <<arg, ret, content_parts, reasoning_parts>>

\* lines 281-309: one line that is not the sentinel
ReadEvent ==
    /\ pc = "read"
    /\ Pending(lines) # <<>>
    /\ DataStr(Strip(Head(Pending(lines)))) # W_DONE
    /\ LET chunk == _safe_json_loads(DataStr(Strip(Head(Pending(lines)))))
       IN IF ~CountsAsChunk(chunk)
          THEN UNCHANGED <<content_parts, reasoning_parts, meta>>
          ELSE /\ meta' = [meta EXCEPT !.chunks = @ + 1]
               /\ content_parts' = content_parts \o EventParts(chunk).content
               /\ reasoning_parts' = reasoning_parts \o EventParts(chunk).reasoning
    /\ lines' = Tail(Pending(lines))
    /\ UNCHANGED <<pc, arg, ret>>

\* the response has no more lines
EndOfInput ==
    /\ pc = "read"
    /\ Pending(lines) = <<>>
    /\ lines' = <<>>
    /\ pc' = "finish"
    /\ UNCHANGED <<arg, ret, content_parts, reasoning_parts, meta>>

\* lines 311-320: what the decoder returns
StreamResult(parts_c, parts_r, m) ==
    LET full_content == Strip(ConcatAll(parts_c))
        full_reasoning == Strip(ConcatAll(parts_r))
        split == _split_thinking_and_answer_from_content(full_content)
    IN IF full_reasoning = <<>> /\ full_content # <<>> /\ split.thinking # <<>>
       THEN [content |-> split.answer, reasoning |-> split.thinking, meta |-> m]
       ELSE [content |-> full_content, reasoning |-> full_reasoning, meta |-> m]

Finish ==
    /\ pc = "finish"
    /\ ret' = StreamResult(content_parts, reasoning_parts, meta)
    /\ pc' = "done"
    /\ UNCHANGED <<arg, streamVars>>

(***************************************************************************)
(* Specification of the streaming decoder over every sequence of lines.    *)
(***************************************************************************)
MaxLines == 4

\* {"choices": [{kind: {field: text}}]}
EventLine(kind, field, text) ==
    W_data \o <<32>>
    \o Dumps(PyDict(<<K_choices>>,
                    <<PyList(<<PyDict(<<kind>>, <<PyDict(<<field>>, <<PyStr(text)>>)>>)>>)>>),
             0, 0)

SentinelLine == W_data \o <<32>> \o W_DONE

\* a blank line; " data:x{ " is not JSON; "[1]" has no prefix and is JSON but
\* no mapping; "data: {}" is a mapping without choices
LineTexts ==
    {SentinelLine,
     <<32>>,
     <<32>> \o W_data \o <<120, 123, 32>>,
     <<91, 49, 93>>,
     W_data \o <<32, 123, 125>>,
     EventLine(K_delta, K_content, W_open \o <<112>>),
     EventLine(K_delta, K_content, W_close \o <<32, 120>>),
     EventLine(K_delta, K_reasoning, <<114>>),
     EventLine(K_message, K_content, W_open \o W_close)}

InitStream ==
    /\ pc = "read"
    /\ arg \in {[lines |-> ls] : ls \in SeqsUpTo(LineTexts, MaxLines)}
    /\ lines = arg.lines
    /\ content_parts = <<>>
    /\ reasoning_parts = <<>>
    /\ meta = [done |-> FALSE, chunks |-> 0]
    /\ ret = None

NextStream == ReadSentinel \/ ReadEvent \/ EndOfInput \/ Finish

SpecStream == InitStream /\ [][NextStream]_vars

(***************************************************************************)
(* The input of the decoder, read independently of the decoder's loop.     *)
(***************************************************************************)
\* the payload of a raw line
Payload(line) == DataStr(Strip(line))

IsSentinel(line) == Payload(line) = W_DONE

\* the position of the first sentinel line, 0 when there is none
FirstSentinel(ls) ==
    LET hits == {i \in 1..Len(ls) : IsSentinel(ls[i])}
    IN IF hits = {} THEN 0 ELSE CHOOSE i \in hits : \A j \in hits : i <= j

\* the lines that precede the first sentinel (all of them when there is none)
BeforeSentinel(ls) ==
    IF FirstSentinel(ls) = 0 THEN ls ELSE SubSeq(ls, 1, FirstSentinel(ls) - 1)

\* the line parses to a mapping
IsEventLine(line) == IsDict(_safe_json_loads(Payload(line)))

\* what each of the lines parses to
Decoded(ls) == [i \in 1..Len(ls) |-> _safe_json_loads(Payload(ls[i]))]

RECURSIVE FragmentsOf(_, _)
\* the content (which = "content") or reasoning fragments of the events among
\* the parsed lines, in arrival order
FragmentsOf(chunks, which) ==
    IF chunks = <<>> THEN <<>>
    ELSE (IF IsDict(Head(chunks)) THEN EventParts(Head(chunks))[which] ELSE <<>>)
         \o FragmentsOf(Tail(chunks), which)

EventCount(chunks) == Cardinality({i \in 1..Len(chunks) : IsDict(chunks[i])})

\* the trimmed concatenation of the fragments of the parsed lines
Accumulated(chunks, which) == Strip(ConcatAll(FragmentsOf(chunks, which)))

\* the decoder saw only the lines before the first sentinel, and the done
\* flag tells whether there was one
StopsAtSentinel(chunks) ==
    /\ content_parts = FragmentsOf(chunks, "content")
    /\ reasoning_parts = FragmentsOf(chunks, "reasoning")
    /\ ret.meta.chunks = EventCount(chunks)
    /\ ret.meta.done = (FirstSentinel(arg.lines) # 0)

(***************************************************************************)
(* C1 as stated: the decoder stops at the first sentinel, the returned     *)
(* content is the trimmed concatenation, in arrival order, of the content  *)
(* fragments before the sentinel, and done tells whether a sentinel was    *)
(* read.                                                                   *)
(***************************************************************************)
C1_ContentIsConcatenation ==
    pc = "done"
        => LET chunks == Decoded(BeforeSentinel(arg.lines))
           IN /\ StopsAtSentinel(chunks)
              /\ ret.content = Accumulated(chunks, "content")

(***************************************************************************)
(* C1 amended: as stated, except that when no reasoning was accumulated    *)
(* and the concatenation holds an inline <think> block with non-blank      *)
(* text, the returned content is the concatenation with its inline blocks  *)
(* removed and de-scaffolded, and the returned reasoning is the text of    *)
(* the first block.                                                        *)
(***************************************************************************)
\* the text has an inline block whose enclosed text is not blank
HasThinking(text) ==
    FindBlock(text, 1).found /\ Strip(Enclosed(text, FindBlock(text, 1))) # <<>>

C1_ContentIsConcatenationOrSplit ==
    pc = "done"
        => LET chunks == Decoded(BeforeSentinel(arg.lines))
               full == Accumulated(chunks, "content")
               reasoning == Accumulated(chunks, "reasoning")
           IN /\ StopsAtSentinel(chunks)
              /\ IF reasoning = <<>> /\ HasThinking(full)
                 THEN /\ ret.content = _clean_answer(PyStr(RemoveBlocks(full, 1)))
                      /\ ret.reasoning = Strip(Enclosed(full, FindBlock(full, 1)))
                 ELSE /\ ret.content = full
                      /\ ret.reasoning = reasoning

\* two fragments, the sentinel, and an event after it that is not read
C1_Witness ==
    /\ pc = "done"
    /\ Len(arg.lines) = 4
    /\ FirstSentinel(arg.lines) = 3
    /\ IsEventLine(arg.lines[4])
    /\ FragmentsOf(Decoded(arg.lines), "content")
         = <<W_open \o <<112>>, W_close \o <<32, 120>>, W_open \o <<112>>>>
    /\ ret.content = <<120>>
    /\ ret.reasoning = <<112>>
    /\ ret.meta = [done |-> TRUE, chunks |-> 2]

(***************************************************************************)
(* C2.  A line that is not valid JSON, or is JSON but no mapping, leaves   *)
(* both accumulators and the event counter as they are and the decoder     *)
(* reading; the returned event count is the number of lines before the     *)
(* sentinel that parse to a mapping.                                       *)
(***************************************************************************)
\* the decoder is about to read a line that is neither sentinel nor event
AtNoiseLine ==
    /\ pc = "read"
    /\ Pending(lines) # <<>>
    /\ ~IsSentinel(Head(Pending(lines)))
    /\ ~IsEventLine(Head(Pending(lines)))

C2_NoiseSkipped ==
    AtNoiseLine
        => /\ UNCHANGED <<content_parts, reasoning_parts, meta>>
           /\ pc' = "read"
           /\ lines' = Tail(Pending(lines))

C2_CountsOnlyEvents ==
    pc = "done" => ret.meta.chunks = EventCount(Decoded(BeforeSentinel(arg.lines)))

C2_MalformedLinesSkipped == [][C2_NoiseSkipped]_vars /\ []C2_CountsOnlyEvents

\* a line that is not JSON and a JSON list, then two events and the sentinel
C2_Witness ==
    /\ pc = "done"
    /\ Len(arg.lines) = 4
    /\ ~IsEventLine(arg.lines[1])
    /\ _safe_json_loads(Payload(arg.lines[1])) = None
    /\ IsList(_safe_json_loads(Payload(arg.lines[2])))
    /\ IsEventLine(arg.lines[3])
    /\ IsEventLine(arg.lines[4])
    /\ ret.meta.chunks = 2
    /\ ret.content = <<120>>

(***************************************************************************)
(* C5.  At the end of a stream with no accumulated reasoning and a content *)
(* that holds an inline block, the returned content holds no inline block  *)
(* and the returned reasoning is the text the block enclosed.              *)
(***************************************************************************)
C5_InlineBlockRecovered ==
    pc = "done"
        => LET chunks == Decoded(BeforeSentinel(arg.lines))
               full == Accumulated(chunks, "content")
           IN (Accumulated(chunks, "reasoning") = <<>> /\ FindBlock(full, 1).found)
                 => /\ ~FindBlock(ret.content, 1).found
                    /\ ret.reasoning = Strip(Enclosed(full, FindBlock(full, 1)))

(***************************************************************************)
(* SimpleLlamaCppClient.run, from the HTTP 200 response on: the decoding   *)
(* of the streamed and of the single-shot response into the five outputs.  *)
(***************************************************************************)
\* the tuple run returns, or the exception that leaves it (raised # "")
Outputs(answer, thinking, json, raw, model_used) ==
    [raised |-> "", answer |-> answer, thinking |-> thinking, json |-> json,
     raw |-> raw, model_used |-> model_used]

Raised(exception) ==
    [raised |-> exception, answer |-> <<>>, thinking |-> <<>>, json |-> <<>>,
     raw |-> <<>>, model_used |-> <<>>]

\* lines 486, 516, 525: the serialized JSON object, the empty text for none
JsonText(json_obj) ==
    IF json_obj # None THEN Dumps(json_obj, 2, 0) ELSE <<>>

\* lines 485-487, 515-517, 524-526: the json output for an answer
JsonStr(answer, json_mode, mode) ==
    _postprocess_text(JsonText(IF json_mode THEN _extract_json_from_text(answer) ELSE None),
                      mode)

\* lines 489, 518, 528: the tuple for a normalized answer and thinking
Result(answer, thinking, raw, mode, json_mode, model_used) ==
    Outputs(answer, thinking, JsonStr(answer, json_mode, mode), raw, model_used)

\* line 482: the diagnostic of a streamed call, before normalisation
StreamDiagnostic(dec) ==
    Dumps(PyDict(<<K_stream_meta, K_content, K_reasoning>>,
                 <<PyDict(<<K_done, K_chunks>>,
                          <<PyBool(dec.meta.done), PyNum(dec.meta.chunks)>>),
                   PyStr(dec.content), PyStr(dec.reasoning)>>),
          0, 0)

\* lines 478-489: the outputs for what the decoder returned
RunStreamResult(dec, mode, json_mode, model_used) ==
    Result(_postprocess_text(_clean_answer(PyStr(dec.content)), mode),
           _postprocess_text(Strip(dec.reasoning), mode),
           _postprocess_text(StreamDiagnostic(dec), mode),
           mode, json_mode, model_used)

\* choices[0] for a truthy choices: the exception it raises, "" for none
SubscriptError(choices) ==
    CASE choices.t = "list" \/ choices.t = "str" -> ""
      [] choices.t = "dict" -> "KeyError"
      [] OTHER -> "TypeError"

\* choices[0] where it is defined
First(choices) ==
    IF choices.t = "list" THEN choices.items[1] ELSE PyStr(<<choices.s[1]>>)

\* lines 520-528: the message is split, both parts are normalized
SplitResult(split, raw, mode, json_mode, model_used) ==
    Result(_postprocess_text(split.answer, mode), _postprocess_text(split.thinking, mode),
           raw, mode, json_mode, model_used)

\* lines 510-528: the first choice, by its message or else by its text
FirstResult(first, raw, mode, json_mode, model_used) ==
    IF ~IsDict(Get(first, K_message))
    THEN Result(_postprocess_text(_clean_answer(GetOr(first, K_text, PyStr(<<>>))), mode),
                <<>>, raw, mode, json_mode, model_used)
    ELSE SplitResult(_split_thinking_and_answer(Get(first, K_message)),
                     raw, mode, json_mode, model_used)

\* lines 506-509: no choices, or choices[0] raises, or the first choice
ChoicesResult(choices, raw, mode, json_mode, model_used) ==
    IF ~Truthy(choices) THEN Outputs(<<>>, <<>>, <<>>, raw, model_used)
    ELSE IF SubscriptError(choices) # "" THEN Raised(SubscriptError(choices))
    ELSE FirstResult(IF IsDict(First(choices)) THEN First(choices) ELSE PyDict(<<>>, <<>>),
                     raw, mode, json_mode, model_used)

\* lines 501-528: the outputs for the decoded body of a single-shot response
RunSingleResult(data, mode, json_mode, model_used) ==
    IF ~IsDict(data) THEN Raised("AttributeError")
    ELSE ChoicesResult(Or(Get(data, K_choices), PyList(<<>>)),
                       _postprocess_text(Dumps(data, 2, 0), mode),
                       mode, json_mode, model_used)

\* the streamed call returns
ReturnStream ==
    /\ pc = "done"
    /\ arg.stream
    /\ ret' = RunStreamResult(ret, arg.mode, arg.json_mode, arg.model_used)
    /\ pc' = "returned"
    /\ UNCHANGED <<arg, streamVars>>

\* the single-shot call decodes the body and returns
RunSingle ==
    /\ pc = "call"
    /\ ~arg.stream
    /\ ret' = RunSingleResult(arg.data, arg.mode, arg.json_mode, arg.model_used)
    /\ pc' = "returned"
    /\ UNCHANGED <<arg, streamVars>>

(***************************************************************************)
(* Specification of run: a streamed call whose content fragments make up a *)
(* given text, or a single-shot call with a given body.                    *)
(***************************************************************************)
MaxRunWords == 3

\* <think>  </think>  x  answer:  left double quote U+201C
RunWords == {W_open, W_close, <<120>>, W_answer \o <<58>>, <<8220>>}

\* <think>x</think>answer:answer:x
TwoLabelsText ==
    W_open \o <<120>> \o W_close \o W_answer \o <<58>> \o W_answer \o <<58, 120>>

RunTexts == WordTexts(RunWords, MaxRunWords) \cup {TwoLabelsText}

\* the text in one fragment (cut = 0) or cut in two in the middle
Fragments(text, cut) ==
    IF cut = 0 THEN <<text>>
    ELSE <<SubSeq(text, 1, Len(text) \div 2), From(text, Len(text) \div 2 + 1)>>

\* the lines of a stream that delivers the fragments, with the sentinel or not
StreamOf(fragments, terminated) ==
    [i \in 1..Len(fragments) |-> EventLine(K_delta, K_content, fragments[i])]
        \o (IF terminated THEN <<SentinelLine>> ELSE <<>>)

\* {"choices": [{"message": {"content": text}}]}
MessageBody(text) ==
    PyDict(<<K_choices>>,
           <<PyList(<<PyDict(<<K_message>>, <<PyDict(<<K_content>>, <<PyStr(text)>>)>>)>>)>>)

ChoicesBody(choices) == PyDict(<<K_choices>>, <<choices>>)

\* bodies of every top-level type, and choices of every type and shape
Bodies ==
    {None, PyList(<<>>), PyStr(<<120>>), PyNum(1), PyDict(<<>>, <<>>)}
      \cup {ChoicesBody(c) :
               c \in {None, PyList(<<>>), PyDict(<<>>, <<>>), PyStr(<<120>>), PyNum(5),
                      PyBool(TRUE), PyDict(<<(<<97>>)>>, <<PyNum(1)>>),
                      PyList(<<PyNum(5)>>), PyList(<<PyDict(<<>>, <<>>)>>),
                      PyList(<<PyDict(<<K_text>>, <<PyStr(W_answer \o <<58, 120>>)>>)>>),
                      PyList(<<PyDict(<<K_text>>, <<PyNum(5)>>)>>),
                      PyList(<<PyDict(<<K_text>>, <<None>>)>>),
                      PyList(<<PyDict(<<K_message>>, <<PyStr(<<109>>)>>)>>),
                      PyList(<<PyDict(<<K_message>>,
                                      <<PyDict(<<K_reasoning, K_content>>,
                                               <<PyStr(<<114>>), PyNum(7)>>)>>)>>)}}
      \cup {MessageBody(t) : t \in RunTexts}

StreamJobs ==
    [stream : {TRUE}, text : RunTexts, cut : {0, 1}, terminated : BOOLEAN,
     data : {None}, mode : Modes, json_mode : BOOLEAN, model_used : {<<109>>}]

SingleJobs ==
    [stream : {FALSE}, text : {<<>>}, cut : {0}, terminated : {FALSE},
     data : Bodies, mode : Modes, json_mode : BOOLEAN, model_used : {<<109>>}]

InitRun ==
    /\ arg \in StreamJobs \cup SingleJobs
    /\ pc = IF arg.stream THEN "read" ELSE "call"
    /\ lines = IF arg.stream
               THEN StreamOf(Fragments(arg.text, arg.cut), arg.terminated)
               ELSE <<>>
    /\ content_parts = <<>>
    /\ reasoning_parts = <<>>
    /\ meta = [done |-> FALSE, chunks |-> 0]
    /\ ret = None

NextRun == ReadSentinel \/ ReadEvent \/ EndOfInput \/ Finish \/ ReturnStream \/ RunSingle

SpecRun == InitRun /\ [][NextRun]_vars

(***************************************************************************)
(* C8.  Decoding a single-shot response never raises, whatever the type of *)
(* the body, of its choices and of the first choice; with choices missing  *)
(* or empty, answer and thinking are empty and the diagnostic and the      *)
(* model identifier are still returned.                                    *)
(***************************************************************************)
C8_SingleShotTotal ==
    (pc = "returned" /\ ~arg.stream)
        => /\ ret.raised = ""
           /\ (~IsDict(arg.data) \/ ~Truthy(Get(arg.data, K_choices)))
                 => /\ ret.answer = <<>>
                    /\ ret.thinking = <<>>
                    /\ ret.raw = _postprocess_text(Dumps(arg.data, 2, 0), arg.mode)
                    /\ ret.model_used = arg.model_used

(***************************************************************************)
(* C9.  The diagnostic output of a streamed call, after normalisation,     *)
(* parses as a JSON object whose content and reasoning fields are the      *)
(* texts the decoder returned.                                             *)
(***************************************************************************)
C9_DiagnosticIsJson ==
    (pc = "returned" /\ arg.stream)
        => LET dec == StreamResult(content_parts, reasoning_parts, meta)
               parsed == Loads(ret.raw, 1, Len(ret.raw))
           IN /\ parsed.ok
              /\ IsDict(parsed.v)
              /\ Get(parsed.v, K_content) = PyStr(dec.content)
              /\ Get(parsed.v, K_reasoning) = PyStr(dec.reasoning)

(***************************************************************************)
(* C10.  A sentinel-terminated stream whose content fragments concatenate  *)
(* to a text, with no dedicated reasoning, gives the same answer and       *)
(* thinking as a single-shot response whose message content is that text.  *)
(***************************************************************************)
C10_PathsAgree ==
    (pc = "returned" /\ arg.stream /\ arg.terminated)
        => LET single == RunSingleResult(MessageBody(arg.text), arg.mode, arg.json_mode,
                                         arg.model_used)
           IN /\ ret.answer = single.answer
              /\ ret.thinking = single.thinking

====
